---------------------------- MODULE Spec2Model ----------------------------
(***************************************************************************)
(* A model of gosheets (src/gosheets.go, lines 1-313): a client over a     *)
(* remote spreadsheet service.  The client holds two session fields        *)
(* (spreadsheetID, sheetName); every data operation validates them,        *)
(* composes an address and issues requests to the remote service.  The     *)
(* pure helpers columnIndex and findRowNumber are modelled as operators    *)
(* and exercised by their own specifications (SpecColumn, SpecFind).       *)
(*                                                                         *)
(* Lines 315-492 of src/gosheets.go are an older, package-level variant of *)
(* the same code (global service handle); its columnIndex and              *)
(* findRowNumber differ and appear here only as the "Legacy" operators.    *)
(***************************************************************************)
EXTENDS Integers, Sequences, FiniteSets, TLC

VARIABLES
    spreadsheetID,  \* GoogleSheetsClient.spreadsheetID
    sheetName,      \* GoogleSheetsClient.sheetName
    book,           \* the remote spreadsheet: a sequence of sheets
    pc,             \* "idle": no call in progress; "returned": a call returned
    last,           \* the call that returned last: operation, arguments, outcome
    fin,            \* pure-function harness: the arguments
    fout,           \* pure-function harness: the value returned
    fpc,            \* pure-function harness: "call" before, "done" after
    held,           \* the caller: the rows its last ReadData returned
    resolved,       \* the sheet id the caller's previous operation resolved
    flight,         \* an InsertRowsAfterPosition in progress: step and locals
    writing         \* a setter in progress on another thread: field and value

vars ==
    <<spreadsheetID, sheetName, book, pc, last, fin, fout, fpc, held, resolved,
      flight, writing>>

clientVars == <<spreadsheetID, sheetName, book, pc, last>>

fnVars == <<fin, fout, fpc>>

sharedVars == <<held, resolved>>

raceVars == <<flight, writing>>

(***************************************************************************)
(* Bounds of the model.                                                    *)
(***************************************************************************)
MaxColumnLen == 3

MaxFindRows == 3

MaxFindCols == 2

MaxGridRows == 3

MaxTextRows == 2

MaxTextCols == 2

MaxRaceRows == 5

(***************************************************************************)
(* Characters.  A column code is a sequence of one-letter strings; Rune    *)
(* gives the code point Go's range loop yields for it.                     *)
(***************************************************************************)
UpperLetters ==
    << "A", "B", "C", "D", "E", "F", "G", "H", "I", "J", "K", "L", "M",
       "N", "O", "P", "Q", "R", "S", "T", "U", "V", "W", "X", "Y", "Z" >>

LowerLetters ==
    << "a", "b", "c", "d", "e", "f", "g", "h", "i", "j", "k", "l", "m",
       "n", "o", "p", "q", "r", "s", "t", "u", "v", "w", "x", "y", "z" >>

UpperSet == { UpperLetters[i] : i \in 1..Len(UpperLetters) }

LowerSet == { LowerLetters[i] : i \in 1..Len(LowerLetters) }

Letters == UpperSet \cup LowerSet

\* the code point of every letter: 'A' is 65, 'a' is 97
RuneOf ==
    [ c \in Letters |->
        IF c \in UpperSet
        THEN 64 + (CHOOSE i \in 1..Len(UpperLetters) : UpperLetters[i] = c)
        ELSE 96 + (CHOOSE i \in 1..Len(LowerLetters) : LowerLetters[i] = c) ]

Rune(c) == RuneOf[c]

\* unicode.ToUpper on every letter: a lower-case letter is moved down by 32
UpperOf ==
    [ c \in Letters |->
        IF c \in LowerSet THEN UpperLetters[RuneOf[c] - 96] ELSE c ]

LowerOf ==
    [ c \in Letters |->
        IF c \in UpperSet THEN LowerLetters[RuneOf[c] - 64] ELSE c ]

\* strings.ToUpper
ToUpper(s) == [ i \in 1..Len(s) |-> UpperOf[s[i]] ]

ToLower(s) == [ i \in 1..Len(s) |-> LowerOf[s[i]] ]

(***************************************************************************)
(* columnIndex (src/gosheets.go:294-301).                                  *)
(***************************************************************************)
RECURSIVE columnIndexLoop(_, _, _)
columnIndexLoop(column, i, index) ==
    IF i > Len(column) THEN index
    ELSE columnIndexLoop(column, i + 1,
                         index * 26 + (Rune(column[i]) - Rune("A")) + 1)

\* the older variant (src/gosheets.go:482-492): index-- after the first
\* letter only, and no final decrement
RECURSIVE columnIndexLegacyLoop(_, _, _)
columnIndexLegacyLoop(column, i, index) ==
    IF i > Len(column) THEN index
    ELSE LET next == index * 26 + (Rune(column[i]) - Rune("A")) + 1
         IN  columnIndexLegacyLoop(column, i + 1,
                                   IF i = 1 THEN next - 1 ELSE next)

columnIndexLegacy(column) == columnIndexLegacyLoop(ToUpper(column), 1, 0)

columnIndex(column) == columnIndexLoop(ToUpper(column), 1, 0) - 1

(***************************************************************************)
(* Cells.  A cell is an interface{} value: a string, an integer, a boolean *)
(* or nil.  Sprint is fmt.Sprintf("%v", cell).                             *)
(***************************************************************************)
StrCell(s) == [t |-> "string", s |-> s, n |-> 0, b |-> FALSE]

IntCell(n) == [t |-> "int", s |-> "", n |-> n, b |-> FALSE]

BoolCell(b) == [t |-> "bool", s |-> "", n |-> 0, b |-> b]

Nil == [t |-> "nil", s |-> "", n |-> 0, b |-> FALSE]

Sprint(cell) ==
    CASE cell.t = "string" -> cell.s
      [] cell.t = "int" -> ToString(cell.n)
      [] cell.t = "bool" -> (IF cell.b THEN "true" ELSE "false")
      [] cell.t = "nil" -> "<nil>"

(***************************************************************************)
(* DataToString (src/gosheets.go:253-264).  result is the strings.Builder: *)
(* writeCells is the inner loop over the cells of a row from cell j,       *)
(* writeRows the outer loop over the rows from row i.                      *)
(***************************************************************************)
RECURSIVE writeCells(_, _, _)
writeCells(row, j, result) ==
    IF j > Len(row) THEN result
    ELSE writeCells(row, j + 1, result \o Sprint(row[j]) \o "\t")

RECURSIVE writeRows(_, _, _)
writeRows(data, i, result) ==
    IF i > Len(data) THEN result
    ELSE writeRows(data, i + 1, writeCells(data[i], 1, result) \o "\n")

\* DataToString putting the tab between the cells of a row, none after the
\* last
RECURSIVE joinCells(_, _, _)
joinCells(row, j, result) ==
    IF j > Len(row) THEN result
    ELSE joinCells(row, j + 1,
                   result \o (IF j > 1 THEN "\t" ELSE "") \o Sprint(row[j]))

RECURSIVE joinRows(_, _, _)
joinRows(data, i, result) ==
    IF i > Len(data) THEN result
    ELSE joinRows(data, i + 1, joinCells(data[i], 1, result) \o "\n")

DataToStringJoined(data) == joinRows(data, 1, "")

DataToString(data) == writeRows(data, 1, "")

(***************************************************************************)
(* findRowNumber (src/gosheets.go:275-285).  i is the 0-based loop index.  *)
(* The result is [panic, index]: panic is the index-out-of-range panic of  *)
(* row[columnIndex(column)], index the value returned otherwise.           *)
(***************************************************************************)
Found(n) == [panic |-> FALSE, index |-> n]

Panic == [panic |-> TRUE, index |-> 0]

\* row[k] for a 0-based k is defined
InRange(row, k) == 0 <= k /\ k < Len(row)

RECURSIVE findRowNumberLoop(_, _, _, _)
findRowNumberLoop(data, column, value, i) ==
    IF i >= Len(data) THEN Found(-1)
    ELSE LET row == data[i + 1]
         IN  IF Len(row) < columnIndex(column) + 1
             THEN findRowNumberLoop(data, column, value, i + 1)
             ELSE IF ~InRange(row, columnIndex(column)) THEN Panic
             ELSE IF Sprint(row[columnIndex(column) + 1]) = value
                  THEN Found(i + 1)
                  ELSE findRowNumberLoop(data, column, value, i + 1)

\* the older variant's guard (src/gosheets.go:463-473): len(row) <
\* columnIndex(column), which lets a row one cell too short through
RECURSIVE findRowNumberLegacyLoop(_, _, _, _)
findRowNumberLegacyLoop(data, column, value, i) ==
    IF i >= Len(data) THEN Found(-1)
    ELSE LET row == data[i + 1]
         IN  IF Len(row) < columnIndex(column)
             THEN findRowNumberLegacyLoop(data, column, value, i + 1)
             ELSE IF ~InRange(row, columnIndex(column)) THEN Panic
             ELSE IF Sprint(row[columnIndex(column) + 1]) = value
                  THEN Found(i + 1)
                  ELSE findRowNumberLegacyLoop(data, column, value, i + 1)

findRowNumberLegacy(data, column, value) ==
    findRowNumberLegacyLoop(data, column, value, 0)

findRowNumber(data, column, value) == findRowNumberLoop(data, column, value, 0)

(***************************************************************************)
(* Errors.  Every error of the client is built by fmt.Errorf; msg is its   *)
(* text and kind names the failure at its root, which wrapping keeps:      *)
(* "config" (a session field is unset), "notfound" (no sheet of that name, *)
(* no row with that value), "remote" (the remote service failed the        *)
(* request; its own text is abstracted to "<remote>").                     *)
(***************************************************************************)
NoError == [kind |-> "nil", msg |-> ""]

Errorf(kind, msg) == [kind |-> kind, msg |-> msg]

\* fmt.Errorf(prefix + "%v", err)
Wrap(prefix, err) == [kind |-> err.kind, msg |-> prefix \o err.msg]

RemoteFailure == Errorf("remote", "<remote>")

\* validateClientFields without its check of the sheet name
validateClientFieldsIDOnly(id, name) ==
    IF id = "" THEN Errorf("config", "spreadsheet ID not set") ELSE NoError

\* validateClientFields (src/gosheets.go:303-313)
validateClientFields(id, name) ==
    IF id = "" THEN Errorf("config", "spreadsheet ID not set")
    ELSE IF name = "" THEN Errorf("config", "sheet name not set")
    ELSE NoError

(***************************************************************************)
(* The remote service.  One spreadsheet exists, BookID; book is its        *)
(* sequence of sheets [title, sheetId, rows].  rows are the rows of the    *)
(* sheet from row 1 to its last row that holds a value (blank rows in      *)
(* between are <<>>); below them the sheet is blank.                       *)
(***************************************************************************)
BookID == "book-1"

Blank == <<>>

Max(a, b) == IF a >= b THEN a ELSE b

RECURSIVE Trim(_)
Trim(rows) ==
    IF rows # <<>> /\ rows[Len(rows)] = Blank
    THEN Trim(SubSeq(rows, 1, Len(rows) - 1))
    ELSE rows

\* the row at 1-based position r of a sheet, blank below its last row
RowAt(rows, r) == IF r \in 1..Len(rows) THEN rows[r] ELSE Blank

SheetTitles(b) == { b[i].title : i \in 1..Len(b) }

SheetIds(b) == { b[i].sheetId : i \in 1..Len(b) }

SheetByTitle(b, title) == CHOOSE i \in 1..Len(b) : b[i].title = title

SheetById(b, sheetId) == CHOOSE i \in 1..Len(b) : b[i].sheetId = sheetId

RowsOf(b, title) == b[SheetByTitle(b, title)].rows

\* A1 notation: the cells "A1", "A2", ... the service resolves, by row
CellRows == 1..(MaxGridRows + 2)

CellName(r) == "A" \o ToString(r)

\* an address "<title>!<cell>" the service can resolve to a sheet and a row
Resolvable(b, address) ==
    \E t \in SheetTitles(b), r \in CellRows : address = t \o "!" \o CellName(r)

ResolveTitle(b, address) ==
    CHOOSE t \in SheetTitles(b) :
        \E r \in CellRows : address = t \o "!" \o CellName(r)

ResolveRow(b, address) ==
    CHOOSE r \in CellRows :
        \E t \in SheetTitles(b) : address = t \o "!" \o CellName(r)

\* the ranges of a read the service resolves: "A:B" is every row of the
\* columns A and B, "A1:B2" the first two rows of them
ReadRanges == { "A:B", "A1:B2" }

ReadableTitles(b, address) ==
    { t \in SheetTitles(b) : \E g \in ReadRanges : address = t \o "!" \o g }

ReadableRange(b, address) ==
    CHOOSE g \in ReadRanges :
        \E t \in SheetTitles(b) : address = t \o "!" \o g

\* spreadsheets.values.get: the rows of the range, without the blank rows
\* after the last value
ReadRows(rows, g) ==
    IF g = "A1:B2" /\ Len(rows) > 2 THEN Trim(SubSeq(rows, 1, 2)) ELSE rows

\* the last row of the table that holds row a: the run of non-blank rows
RECURSIVE TableEnd(_, _)
TableEnd(rows, a) ==
    IF RowAt(rows, a + 1) = Blank THEN a ELSE TableEnd(rows, a + 1)

\* a written row replaces the cells it covers and keeps the others
Overlay(old, new) ==
    [ i \in 1..Max(Len(old), Len(new)) |->
        IF i <= Len(new) THEN new[i] ELSE old[i] ]

\* values written at rows start, start+1, ...
WriteRows(rows, start, values) ==
    Trim([ r \in 1..Max(Len(rows), start + Len(values) - 1) |->
            IF r >= start /\ r < start + Len(values)
            THEN Overlay(RowAt(rows, r), values[r - start + 1])
            ELSE RowAt(rows, r) ])

\* spreadsheets.values.append: the anchor cell locates a table and the
\* values go below its last row; an anchor on a blank row takes the values
AppendRows(rows, a, values) ==
    IF values = <<>> THEN rows
    ELSE IF RowAt(rows, a) # Blank
         THEN WriteRows(rows, TableEnd(rows, a) + 1, values)
         ELSE WriteRows(rows, a, values)

\* insertDimension ROWS [start, end): blank rows before 0-based row start
InsertBlankRows(rows, start, end) ==
    IF start >= Len(rows) THEN rows
    ELSE SubSeq(rows, 1, start)
         \o [ i \in 1..(end - start) |-> Blank ]
         \o SubSeq(rows, start + 1, Len(rows))

\* deleteDimension ROWS [start, end): the rows leave and the rest move up
DeleteRows(rows, start, end) ==
    IF start >= Len(rows) THEN rows
    ELSE Trim(SubSeq(rows, 1, start) \o SubSeq(rows, end + 1, Len(rows)))

WithRows(b, i, rows) == [b EXCEPT ![i].rows = rows]

(***************************************************************************)
(* Requests.  Each is [kind, ...] as the client sent it, and ok: whether   *)
(* the service carried it out.                                             *)
(***************************************************************************)
Request(kind, id, address, sheetId, start, end, values, ok) ==
    [kind |-> kind, spreadsheetID |-> id, address |-> address,
     sheetId |-> sheetId, startIndex |-> start, endIndex |-> end,
     values |-> values, ok |-> ok]

\* the service carries out a metadata fetch of a spreadsheet that exists
AcceptsGet(id) == id = BookID

AcceptsRead(b, id, address) == id = BookID /\ ReadableTitles(b, address) # {}

AcceptsAppend(b, id, address) == id = BookID /\ Resolvable(b, address)

\* 0 is not a valid start index of the insert (src/gosheets.go:141, 162)
AcceptsInsert(b, id, sheetId, start, end) ==
    /\ id = BookID
    /\ sheetId \in SheetIds(b)
    /\ start >= 1
    /\ end >= start

AcceptsDelete(b, id, sheetId, start, end) ==
    /\ id = BookID
    /\ sheetId \in SheetIds(b)
    /\ start >= 0
    /\ end > start

(***************************************************************************)
(* The client's operations, as functions of the session fields, the remote *)
(* spreadsheet and the arguments.  failAt names the remote request of the  *)
(* call (1, 2, 3 in the order issued) that the service fails for a reason  *)
(* of its own (transport, permission); 0: none.  Each returns the error,   *)
(* the requests issued in order, and the spreadsheet afterwards.           *)
(***************************************************************************)
Outcome(err, reqs, b, ret) == [err |-> err, reqs |-> reqs, book |-> b, ret |-> ret]

NoRows == <<>>

\* getSheetID (src/gosheets.go:72-90); nth is the number of its request
\* within the calling operation
RECURSIVE ScanSheets(_, _, _)
ScanSheets(sheets, name, i) ==
    IF i > Len(sheets) THEN -1
    ELSE IF sheets[i].title = name THEN sheets[i].sheetId
    ELSE ScanSheets(sheets, name, i + 1)

\* getSheetID returning 0, the id of the first sheet, when it fails
getSheetIDZeroSentinel(id, name, b, failAt, nth) ==
    LET err == validateClientFields(id, name)
        ok == AcceptsGet(id) /\ failAt # nth
        req == Request("get", id, "", -1, 0, 0, NoRows, ok)
        found == ScanSheets(b, name, 1)
    IN  IF err # NoError THEN Outcome(err, <<>>, b, 0)
        ELSE IF ~ok
             THEN Outcome(Wrap("unable to retrieve spreadsheet: ", RemoteFailure),
                          <<req>>, b, 0)
        ELSE IF found # -1 THEN Outcome(NoError, <<req>>, b, found)
        ELSE Outcome(Errorf("notfound", "sheet with name " \o name \o " not found"),
                     <<req>>, b, 0)

\* getSheetID keeping the id it resolved for a name and using it again
getSheetIDCached(id, name, b, failAt, nth) ==
    LET err == validateClientFields(id, name)
        ok == AcceptsGet(id) /\ failAt # nth
        req == Request("get", id, "", -1, 0, 0, NoRows, ok)
        found == ScanSheets(b, name, 1)
    IN  IF err # NoError THEN Outcome(err, <<>>, b, -1)
        ELSE IF resolved.name = name /\ resolved.sheetId # -1
             THEN Outcome(NoError, <<>>, b, resolved.sheetId)
        ELSE IF ~ok
             THEN Outcome(Wrap("unable to retrieve spreadsheet: ", RemoteFailure),
                          <<req>>, b, -1)
        ELSE IF found # -1 THEN Outcome(NoError, <<req>>, b, found)
        ELSE Outcome(Errorf("notfound", "sheet with name " \o name \o " not found"),
                     <<req>>, b, -1)

getSheetID(id, name, b, failAt, nth) ==
    LET err == validateClientFields(id, name)
        ok == AcceptsGet(id) /\ failAt # nth
        req == Request("get", id, "", -1, 0, 0, NoRows, ok)
        found == ScanSheets(b, name, 1)
    IN  IF err # NoError THEN Outcome(err, <<>>, b, -1)
        ELSE IF ~ok
             THEN Outcome(Wrap("unable to retrieve spreadsheet: ", RemoteFailure),
                          <<req>>, b, -1)
        ELSE IF found # -1 THEN Outcome(NoError, <<req>>, b, found)
        ELSE Outcome(Errorf("notfound", "sheet with name " \o name \o " not found"),
                     <<req>>, b, -1)

\* ReadData padding every row with nil cells to the length of the longest
ReadDataPadded(id, name, b, readRange, failAt) ==
    LET err == validateClientFields(id, name)
        address == name \o "!" \o readRange
        ok == AcceptsRead(b, id, address) /\ failAt # 1
        req == Request("values.get", id, address, -1, 0, 0, NoRows, ok)
        rows == ReadRows(RowsOf(b, name), ReadableRange(b, address))
        width == IF rows = <<>> THEN 0
                 ELSE CHOOSE w \in { Len(rows[r]) : r \in 1..Len(rows) } :
                        \A r \in 1..Len(rows) : Len(rows[r]) <= w
    IN  IF err # NoError THEN Outcome(err, <<>>, b, NoRows)
        ELSE IF ~ok
             THEN Outcome(Wrap("unable to retrieve data from Google Sheets: ",
                               RemoteFailure), <<req>>, b, NoRows)
        ELSE Outcome(NoError, <<req>>, b,
                     [ r \in 1..Len(rows) |->
                         [ c \in 1..width |->
                             IF c <= Len(rows[r]) THEN rows[r][c] ELSE Nil ] ])

\* ReadData (src/gosheets.go:99-112)
ReadData(id, name, b, readRange, failAt) ==
    LET err == validateClientFields(id, name)
        address == name \o "!" \o readRange
        ok == AcceptsRead(b, id, address) /\ failAt # 1
        req == Request("values.get", id, address, -1, 0, 0, NoRows, ok)
    IN  IF err # NoError THEN Outcome(err, <<>>, b, NoRows)
        ELSE IF ~ok
             THEN Outcome(Wrap("unable to retrieve data from Google Sheets: ",
                               RemoteFailure), <<req>>, b, NoRows)
        ELSE Outcome(NoError, <<req>>, b,
                     ReadRows(RowsOf(b, name), ReadableRange(b, address)))

\* AppendData composing the address without the "!" between sheet and range
AppendDataAtNoSeparator(id, name, b, data, range_, failAt, nth) ==
    LET err == validateClientFields(id, name)
        address == name \o range_
        ok == AcceptsAppend(b, id, address) /\ failAt # nth
        req == Request("values.append", id, address, -1, 0, 0, data, ok)
    IN  IF err # NoError THEN Outcome(err, <<>>, b, NoRows)
        ELSE IF ~ok
             THEN Outcome(Wrap("unable to add data to Google Sheets: ",
                               RemoteFailure), <<req>>, b, NoRows)
        ELSE LET i == SheetByTitle(b, ResolveTitle(b, address))
             IN  Outcome(NoError, <<req>>,
                         WithRows(b, i, AppendRows(b[i].rows,
                                                   ResolveRow(b, address), data)),
                         NoRows)

\* AppendData refusing an empty data sequence before it calls the service
AppendDataAtRejectEmpty(id, name, b, data, range_, failAt, nth) ==
    LET err == validateClientFields(id, name)
        address == name \o "!" \o range_
        ok == AcceptsAppend(b, id, address) /\ failAt # nth
        req == Request("values.append", id, address, -1, 0, 0, data, ok)
    IN  IF err # NoError THEN Outcome(err, <<>>, b, NoRows)
        ELSE IF data = <<>>
             THEN Outcome(Errorf("config", "no data to append"), <<>>, b, NoRows)
        ELSE IF ~ok
             THEN Outcome(Wrap("unable to add data to Google Sheets: ",
                               RemoteFailure), <<req>>, b, NoRows)
        ELSE LET i == SheetByTitle(b, ResolveTitle(b, address))
             IN  Outcome(NoError, <<req>>,
                         WithRows(b, i, AppendRows(b[i].rows,
                                                   ResolveRow(b, address), data)),
                         NoRows)

\* AppendData (src/gosheets.go:123-139); nth as in getSheetID
AppendDataAt(id, name, b, data, range_, failAt, nth) ==
    LET err == validateClientFields(id, name)
        address == name \o "!" \o range_
        ok == AcceptsAppend(b, id, address) /\ failAt # nth
        req == Request("values.append", id, address, -1, 0, 0, data, ok)
    IN  IF err # NoError THEN Outcome(err, <<>>, b, NoRows)
        ELSE IF ~ok
             THEN Outcome(Wrap("unable to add data to Google Sheets: ",
                               RemoteFailure), <<req>>, b, NoRows)
        ELSE LET i == SheetByTitle(b, ResolveTitle(b, address))
             IN  Outcome(NoError, <<req>>,
                         WithRows(b, i, AppendRows(b[i].rows,
                                                   ResolveRow(b, address), data)),
                         NoRows)

AppendData(id, name, b, data, range_, failAt) ==
    AppendDataAt(id, name, b, data, range_, failAt, 1)

\* InsertRowsAfterPosition taking the 1-based position for a 0-based start
\* index: StartIndex position - 1
InsertRowsAfterPositionZeroBased(id, name, b, data, position, failAt) ==
    LET sheet == getSheetID(id, name, b, failAt, 1)
        numRows == Len(data)
        ok == AcceptsInsert(b, id, sheet.ret, position - 1,
                            position - 1 + numRows)
              /\ failAt # 2
        req == Request("insertDimension", id, "", sheet.ret, position - 1,
                       position - 1 + numRows, NoRows, ok)
        i == SheetById(b, sheet.ret)
        b2 == WithRows(b, i, InsertBlankRows(b[i].rows, position - 1,
                                             position - 1 + numRows))
        app == AppendDataAt(id, name, b2, data, "A" \o ToString(position),
                            failAt, 3)
    IN  IF sheet.err # NoError
        THEN Outcome(Wrap("unable to retrieve sheet ID: ", sheet.err),
                     sheet.reqs, b, NoRows)
        ELSE IF ~ok
             THEN Outcome(Wrap("unable to insert rows at position: ",
                               RemoteFailure), sheet.reqs \o <<req>>, b, NoRows)
        ELSE IF app.err # NoError
             THEN Outcome(Wrap("unable to append data to Google Sheets: ",
                               app.err),
                          sheet.reqs \o <<req>> \o app.reqs, app.book, NoRows)
        ELSE Outcome(NoError, sheet.reqs \o <<req>> \o app.reqs, app.book,
                     NoRows)

\* InsertRowsAfterPosition going on to the append when the insert failed
InsertRowsAfterPositionIgnoreInsertError(id, name, b, data, position, failAt) ==
    LET sheet == getSheetID(id, name, b, failAt, 1)
        numRows == Len(data)
        ok == AcceptsInsert(b, id, sheet.ret, position, position + numRows)
              /\ failAt # 2
        req == Request("insertDimension", id, "", sheet.ret, position,
                       position + numRows, NoRows, ok)
        i == SheetById(b, sheet.ret)
        b2 == IF ok
              THEN WithRows(b, i, InsertBlankRows(b[i].rows, position,
                                                  position + numRows))
              ELSE b
        app == AppendDataAt(id, name, b2, data, "A" \o ToString(position),
                            failAt, 3)
    IN  IF sheet.err # NoError
        THEN Outcome(Wrap("unable to retrieve sheet ID: ", sheet.err),
                     sheet.reqs, b, NoRows)
        ELSE IF app.err # NoError
             THEN Outcome(Wrap("unable to append data to Google Sheets: ",
                               app.err),
                          sheet.reqs \o <<req>> \o app.reqs, app.book, NoRows)
        ELSE Outcome(NoError, sheet.reqs \o <<req>> \o app.reqs, app.book,
                     NoRows)

\* InsertRowsAfterPosition deleting the rows it inserted when the append
\* fails
InsertRowsAfterPositionRollback(id, name, b, data, position, failAt) ==
    LET sheet == getSheetID(id, name, b, failAt, 1)
        numRows == Len(data)
        ok == AcceptsInsert(b, id, sheet.ret, position, position + numRows)
              /\ failAt # 2
        req == Request("insertDimension", id, "", sheet.ret, position,
                       position + numRows, NoRows, ok)
        undo == Request("deleteDimension", id, "", sheet.ret, position,
                        position + numRows, NoRows, TRUE)
        i == SheetById(b, sheet.ret)
        b2 == WithRows(b, i, InsertBlankRows(b[i].rows, position,
                                             position + numRows))
        app == AppendDataAt(id, name, b2, data, "A" \o ToString(position),
                            failAt, 3)
    IN  IF sheet.err # NoError
        THEN Outcome(Wrap("unable to retrieve sheet ID: ", sheet.err),
                     sheet.reqs, b, NoRows)
        ELSE IF ~ok
             THEN Outcome(Wrap("unable to insert rows at position: ",
                               RemoteFailure), sheet.reqs \o <<req>>, b, NoRows)
        ELSE IF app.err # NoError
             THEN Outcome(Wrap("unable to append data to Google Sheets: ",
                               app.err),
                          sheet.reqs \o <<req>> \o app.reqs \o <<undo>>, b,
                          NoRows)
        ELSE Outcome(NoError, sheet.reqs \o <<req>> \o app.reqs, app.book,
                     NoRows)

\* InsertRowsAfterPosition (src/gosheets.go:149-184)
InsertRowsAfterPosition(id, name, b, data, position, failAt) ==
    LET sheet == getSheetID(id, name, b, failAt, 1)
        numRows == Len(data)
        ok == AcceptsInsert(b, id, sheet.ret, position, position + numRows)
              /\ failAt # 2
        req == Request("insertDimension", id, "", sheet.ret, position,
                       position + numRows, NoRows, ok)
        i == SheetById(b, sheet.ret)
        b2 == WithRows(b, i, InsertBlankRows(b[i].rows, position,
                                             position + numRows))
        app == AppendDataAt(id, name, b2, data, "A" \o ToString(position),
                            failAt, 3)
    IN  IF sheet.err # NoError
        THEN Outcome(Wrap("unable to retrieve sheet ID: ", sheet.err),
                     sheet.reqs, b, NoRows)
        ELSE IF ~ok
             THEN Outcome(Wrap("unable to insert rows at position: ",
                               RemoteFailure), sheet.reqs \o <<req>>, b, NoRows)
        ELSE IF app.err # NoError
             THEN Outcome(Wrap("unable to append data to Google Sheets: ",
                               app.err),
                          sheet.reqs \o <<req>> \o app.reqs, app.book, NoRows)
        ELSE Outcome(NoError, sheet.reqs \o <<req>> \o app.reqs, app.book,
                     NoRows)

\* InsertRowsAtBeginning taking the beginning to be position 0
InsertRowsAtBeginningZero(id, name, b, data, failAt) ==
    LET r == InsertRowsAfterPosition(id, name, b, data, 0, failAt)
    IN  IF r.err # NoError
        THEN Outcome(Wrap("unable to insert rows at beginning: ", r.err),
                     r.reqs, r.book, NoRows)
        ELSE Outcome(NoError, r.reqs, r.book, NoRows)

\* InsertRowsAtBeginning (src/gosheets.go:193-200)
InsertRowsAtBeginning(id, name, b, data, failAt) ==
    LET r == InsertRowsAfterPosition(id, name, b, data, 1, failAt)
    IN  IF r.err # NoError
        THEN Outcome(Wrap("unable to insert rows at beginning: ", r.err),
                     r.reqs, r.book, NoRows)
        ELSE Outcome(NoError, r.reqs, r.book, NoRows)

\* DeleteRow with the sheet id 0 of the older variant
\* (src/gosheets.go:430-441) in place of the resolved one
DeleteRowSheetZero(id, name, b, data, column, value, failAt) ==
    LET found == findRowNumber(data, column, value)
        rowIndex == found.index
        sheet == getSheetID(id, name, b, failAt, 1)
        ok == AcceptsDelete(b, id, 0, rowIndex - 1, rowIndex) /\ failAt # 2
        req == Request("deleteDimension", id, "", 0, rowIndex - 1, rowIndex,
                       NoRows, ok)
        i == SheetById(b, 0)
    IN  IF found.panic
        THEN Outcome(Errorf("panic", "index out of range"), <<>>, b, NoRows)
        ELSE IF rowIndex = -1
             THEN Outcome(Errorf("notfound", "unable to find the value " \o value),
                          <<>>, b, NoRows)
        ELSE IF sheet.err # NoError
             THEN Outcome(Wrap("unable to retrieve sheet ID: ", sheet.err),
                          sheet.reqs, b, NoRows)
        ELSE IF ~ok
             THEN Outcome(Wrap("unable to delete row from Google Sheets: ",
                               RemoteFailure), sheet.reqs \o <<req>>, b, NoRows)
        ELSE Outcome(NoError, sheet.reqs \o <<req>>,
                     WithRows(b, i, DeleteRows(b[i].rows, rowIndex - 1, rowIndex)),
                     NoRows)

\* DeleteRow testing the row number against 0 in place of the sentinel -1
DeleteRowWrongSentinel(id, name, b, data, column, value, failAt) ==
    LET found == findRowNumber(data, column, value)
        rowIndex == found.index
        sheet == getSheetID(id, name, b, failAt, 1)
        ok == AcceptsDelete(b, id, sheet.ret, rowIndex - 1, rowIndex)
              /\ failAt # 2
        req == Request("deleteDimension", id, "", sheet.ret, rowIndex - 1,
                       rowIndex, NoRows, ok)
        i == SheetById(b, sheet.ret)
    IN  IF found.panic
        THEN Outcome(Errorf("panic", "index out of range"), <<>>, b, NoRows)
        ELSE IF rowIndex = 0
             THEN Outcome(Errorf("notfound", "unable to find the value " \o value),
                          <<>>, b, NoRows)
        ELSE IF sheet.err # NoError
             THEN Outcome(Wrap("unable to retrieve sheet ID: ", sheet.err),
                          sheet.reqs, b, NoRows)
        ELSE IF ~ok
             THEN Outcome(Wrap("unable to delete row from Google Sheets: ",
                               RemoteFailure), sheet.reqs \o <<req>>, b, NoRows)
        ELSE Outcome(NoError, sheet.reqs \o <<req>>,
                     WithRows(b, i, DeleteRows(b[i].rows, rowIndex - 1, rowIndex)),
                     NoRows)

\* DeleteRow sending the structural delete a second time when it failed
DeleteRowRetry(id, name, b, data, column, value, failAt) ==
    LET found == findRowNumber(data, column, value)
        rowIndex == found.index
        sheet == getSheetID(id, name, b, failAt, 1)
        ok == AcceptsDelete(b, id, sheet.ret, rowIndex - 1, rowIndex)
              /\ failAt # 2
        req == Request("deleteDimension", id, "", sheet.ret, rowIndex - 1,
                       rowIndex, NoRows, ok)
        i == SheetById(b, sheet.ret)
    IN  IF found.panic
        THEN Outcome(Errorf("panic", "index out of range"), <<>>, b, NoRows)
        ELSE IF rowIndex = -1
             THEN Outcome(Errorf("notfound", "unable to find the value " \o value),
                          <<>>, b, NoRows)
        ELSE IF sheet.err # NoError
             THEN Outcome(Wrap("unable to retrieve sheet ID: ", sheet.err),
                          sheet.reqs, b, NoRows)
        ELSE IF ~ok
             THEN Outcome(Wrap("unable to delete row from Google Sheets: ",
                               RemoteFailure), sheet.reqs \o <<req, req>>, b,
                          NoRows)
        ELSE Outcome(NoError, sheet.reqs \o <<req>>,
                     WithRows(b, i, DeleteRows(b[i].rows, rowIndex - 1, rowIndex)),
                     NoRows)

\* DeleteRow validating the session fields before it looks the row up
DeleteRowValidateFirst(id, name, b, data, column, value, failAt) ==
    LET err == validateClientFields(id, name)
        found == findRowNumber(data, column, value)
        rowIndex == found.index
        sheet == getSheetID(id, name, b, failAt, 1)
        ok == AcceptsDelete(b, id, sheet.ret, rowIndex - 1, rowIndex)
              /\ failAt # 2
        req == Request("deleteDimension", id, "", sheet.ret, rowIndex - 1,
                       rowIndex, NoRows, ok)
        i == SheetById(b, sheet.ret)
    IN  IF err # NoError
        THEN Outcome(Wrap("unable to retrieve sheet ID: ", err), <<>>, b, NoRows)
        ELSE IF found.panic
        THEN Outcome(Errorf("panic", "index out of range"), <<>>, b, NoRows)
        ELSE IF rowIndex = -1
             THEN Outcome(Errorf("notfound", "unable to find the value " \o value),
                          <<>>, b, NoRows)
        ELSE IF sheet.err # NoError
             THEN Outcome(Wrap("unable to retrieve sheet ID: ", sheet.err),
                          sheet.reqs, b, NoRows)
        ELSE IF ~ok
             THEN Outcome(Wrap("unable to delete row from Google Sheets: ",
                               RemoteFailure), sheet.reqs \o <<req>>, b, NoRows)
        ELSE Outcome(NoError, sheet.reqs \o <<req>>,
                     WithRows(b, i, DeleteRows(b[i].rows, rowIndex - 1, rowIndex)),
                     NoRows)

\* DeleteRow reading the sheet again and looking the row up in what it reads
DeleteRowRereads(id, name, b, data, column, value, failAt) ==
    LET read == ReadData(id, name, b, "A:B", 0)
        found == findRowNumber(read.ret, column, value)
        rowIndex == found.index
        sheet == getSheetID(id, name, b, failAt, 1)
        ok == AcceptsDelete(b, id, sheet.ret, rowIndex - 1, rowIndex)
              /\ failAt # 2
        req == Request("deleteDimension", id, "", sheet.ret, rowIndex - 1,
                       rowIndex, NoRows, ok)
        i == SheetById(b, sheet.ret)
    IN  IF found.panic
        THEN Outcome(Errorf("panic", "index out of range"), read.reqs, b, NoRows)
        ELSE IF rowIndex = -1
             THEN Outcome(Errorf("notfound", "unable to find the value " \o value),
                          read.reqs, b, NoRows)
        ELSE IF sheet.err # NoError
             THEN Outcome(Wrap("unable to retrieve sheet ID: ", sheet.err),
                          read.reqs \o sheet.reqs, b, NoRows)
        ELSE IF ~ok
             THEN Outcome(Wrap("unable to delete row from Google Sheets: ",
                               RemoteFailure),
                          read.reqs \o sheet.reqs \o <<req>>, b, NoRows)
        ELSE Outcome(NoError, read.reqs \o sheet.reqs \o <<req>>,
                     WithRows(b, i, DeleteRows(b[i].rows, rowIndex - 1, rowIndex)),
                     NoRows)

\* DeleteRow (src/gosheets.go:211-244)
DeleteRow(id, name, b, data, column, value, failAt) ==
    LET found == findRowNumber(data, column, value)
        rowIndex == found.index
        sheet == getSheetID(id, name, b, failAt, 1)
        ok == AcceptsDelete(b, id, sheet.ret, rowIndex - 1, rowIndex)
              /\ failAt # 2
        req == Request("deleteDimension", id, "", sheet.ret, rowIndex - 1,
                       rowIndex, NoRows, ok)
        i == SheetById(b, sheet.ret)
    IN  IF found.panic
        THEN Outcome(Errorf("panic", "index out of range"), <<>>, b, NoRows)
        ELSE IF rowIndex = -1
             THEN Outcome(Errorf("notfound", "unable to find the value " \o value),
                          <<>>, b, NoRows)
        ELSE IF sheet.err # NoError
             THEN Outcome(Wrap("unable to retrieve sheet ID: ", sheet.err),
                          sheet.reqs, b, NoRows)
        ELSE IF ~ok
             THEN Outcome(Wrap("unable to delete row from Google Sheets: ",
                               RemoteFailure), sheet.reqs \o <<req>>, b, NoRows)
        ELSE Outcome(NoError, sheet.reqs \o <<req>>,
                     WithRows(b, i, DeleteRows(b[i].rows, rowIndex - 1, rowIndex)),
                     NoRows)

SeqsUpTo(S, n) == UNION { [1..k -> S] : k \in 0..n }

(***************************************************************************)
(* Inputs of the pure-function specifications.                             *)
(***************************************************************************)
UpperColumns == UNION { [1..k -> UpperSet] : k \in 1..MaxColumnLen }

LowerColumns == UNION { [1..k -> LowerSet] : k \in 1..MaxColumnLen }

\* every two-letter code in every mix of cases
MixedPairs == [1..2 -> Letters]

Columns == UpperColumns \cup LowerColumns \cup MixedPairs

NoCall ==
    [op |-> "none", data |-> <<>>, column |-> <<>>, value |-> "",
     position |-> 0, range |-> "", err |-> NoError, reqs |-> <<>>,
     ret |-> <<>>, before |-> <<>>]

NoInput == [column |-> <<>>, data |-> <<>>, value |-> ""]

NoOutput == [panic |-> FALSE, index |-> 0]

\* the caller holds no rows and no operation of it resolved a sheet
NoHeld == [read |-> FALSE, rows |-> <<>>]

NoResolution == [name |-> "", sheetId |-> -1]

NoSharing == held = NoHeld /\ resolved = NoResolution

\* no operation is in progress and no setter is writing
NoFlight ==
    [step |-> "none", data |-> <<>>, position |-> 0, before |-> <<>>,
     sheets |-> <<>>, scanName |-> "", sheetID |-> -1, appendName |-> "",
     reqs |-> <<>>, err |-> NoError]

NoWrite == [field |-> "none", value |-> ""]

NoRace == flight = NoFlight /\ writing = NoWrite

(***************************************************************************)
(* SpecColumn: columnIndex applied to every column code of the bound.      *)
(***************************************************************************)
InitColumn ==
    /\ spreadsheetID = ""
    /\ sheetName = ""
    /\ book = <<>>
    /\ pc = "idle"
    /\ last = NoCall
    /\ \E c \in Columns : fin = [NoInput EXCEPT !.column = c]
    /\ fout = NoOutput
    /\ fpc = "call"
    /\ NoSharing
    /\ NoRace

CallColumnIndex ==
    /\ fpc = "call"
    /\ fout' = [panic |-> FALSE, index |-> columnIndex(fin.column)]
    /\ fpc' = "done"
    /\ UNCHANGED <<fin, clientVars, sharedVars, raceVars>>

NextColumn == CallColumnIndex

SpecColumn == InitColumn /\ [][NextColumn]_vars

(***************************************************************************)
(* SpecFind: findRowNumber applied to every table of the bound, with rows  *)
(* of different lengths, for columns inside and beyond the rows.           *)
(***************************************************************************)
FindCells == { IntCell(1), StrCell("x") }

FindValues == { "1", "x", "X" }

FindColumns == { <<"A">>, <<"b">>, <<"C">>, <<"A", "A">> }

FindRows == SeqsUpTo(FindCells, MaxFindCols)

FindTables == SeqsUpTo(FindRows, MaxFindRows)

InitFind ==
    /\ spreadsheetID = ""
    /\ sheetName = ""
    /\ book = <<>>
    /\ pc = "idle"
    /\ last = NoCall
    /\ \E d \in FindTables, c \in FindColumns, v \in FindValues :
          fin = [column |-> c, data |-> d, value |-> v]
    /\ fout = NoOutput
    /\ fpc = "call"
    /\ NoSharing
    /\ NoRace

CallFindRowNumber ==
    /\ fpc = "call"
    /\ fout' = findRowNumber(fin.data, fin.column, fin.value)
    /\ fpc' = "done"
    /\ UNCHANGED <<fin, clientVars, sharedVars, raceVars>>

NextFind == CallFindRowNumber

SpecFind == InitFind /\ [][NextFind]_vars

(***************************************************************************)
(* SpecText: DataToString applied to every table of the bound: no rows,    *)
(* rows without cells, rows of different lengths, cells of several kinds.  *)
(***************************************************************************)
TextCells == { StrCell("a"), StrCell(""), IntCell(12), Nil }

TextRows == SeqsUpTo(TextCells, MaxTextCols)

TextTables == SeqsUpTo(TextRows, MaxTextRows)

InitText ==
    /\ spreadsheetID = ""
    /\ sheetName = ""
    /\ book = <<>>
    /\ pc = "idle"
    /\ last = NoCall
    /\ \E d \in TextTables : fin = [NoInput EXCEPT !.data = d]
    /\ fout = NoOutput
    /\ fpc = "call"
    /\ NoSharing
    /\ NoRace

CallDataToString ==
    /\ fpc = "call"
    /\ fout' = [text |-> DataToString(fin.data)]
    /\ fpc' = "done"
    /\ UNCHANGED <<fin, clientVars, sharedVars, raceVars>>

NextText == CallDataToString

SpecText == InitText /\ [][NextText]_vars

(***************************************************************************)
(* Spec: the client and the remote spreadsheet.  A call is one action (the *)
(* client is single-threaded and every call blocks until it returns); it   *)
(* leaves its arguments and outcome in last, and Continue is the caller    *)
(* going on to its next call.                                              *)
(***************************************************************************)
SpreadsheetIDs == { "", BookID }

\* "sheet1" names no sheet: titles are compared exactly
SheetNames == { "", "Sheet1", "Sheet2", "sheet1" }

RowA == << StrCell("a") >>

RowB == << StrCell("b"), StrCell("a") >>

GridRows == { Blank, RowA, RowB }

DataArgs == { <<>>, <<RowA>>, <<RowB, RowA>> }

Positions == 0..MaxGridRows

Anchors == { "", "A1", "A2" }

DeleteColumns == { <<"A">>, <<"B">> }

DeleteValues == { "a", "zz" }

\* the tables a caller passes to DeleteRow: none, or what it read of a sheet
DeleteTables(b) == { <<>> } \cup { b[i].rows : i \in 1..Len(b) }

Grids == { g \in SeqsUpTo(GridRows, MaxGridRows) : Trim(g) = g }

RECURSIVE TotalRows(_, _)
TotalRows(b, i) ==
    IF i > Len(b) THEN 0 ELSE Len(b[i].rows) + TotalRows(b, i + 1)

WithinBound(b) == TotalRows(b, 1) <= MaxGridRows

Books ==
    { << [title |-> "Sheet1", sheetId |-> 0, rows |-> g1],
         [title |-> "Sheet2", sheetId |-> 7, rows |-> g2] >> :
      g1 \in Grids, g2 \in Grids }

Call(op, data, column, value, position, range, out) ==
    [op |-> op, data |-> data, column |-> column, value |-> value,
     position |-> position, range |-> range, err |-> out.err,
     reqs |-> out.reqs, ret |-> out.ret, before |-> book]

Init ==
    /\ spreadsheetID = ""
    /\ sheetName = ""
    /\ book \in { b \in Books : WithinBound(b) }
    /\ pc = "idle"
    /\ last = NoCall
    /\ fin = NoInput
    /\ fout = NoOutput
    /\ fpc = "call"
    /\ NoSharing
    /\ NoRace

\* the call returns: the remote state and last change, nothing else
Returns(call, out) ==
    /\ WithinBound(out.book)
    /\ book' = out.book
    /\ last' = call
    /\ pc' = "returned"
    /\ UNCHANGED <<spreadsheetID, sheetName, fnVars, sharedVars, raceVars>>

\* SetSpreadsheetID forgetting the sheet name when the spreadsheet changes
SetSpreadsheetIDClearsSheet(id) ==
    /\ pc = "idle"
    /\ spreadsheetID' = id
    /\ sheetName' = ""
    /\ UNCHANGED <<book, pc, last, fnVars, sharedVars, raceVars>>

\* SetSpreadsheetID (src/gosheets.go:56-58)
SetSpreadsheetID(id) ==
    /\ pc = "idle"
    /\ spreadsheetID' = id
    /\ UNCHANGED <<sheetName, book, pc, last, fnVars, sharedVars, raceVars>>

\* SetSheetName (src/gosheets.go:64-66)
SetSheetName(name) ==
    /\ pc = "idle"
    /\ sheetName' = name
    /\ UNCHANGED <<spreadsheetID, book, pc, last, fnVars, sharedVars, raceVars>>

CallGetSheetID(failAt) ==
    /\ pc = "idle"
    /\ LET out == getSheetID(spreadsheetID, sheetName, book, failAt, 1)
       IN  Returns(Call("getSheetID", <<>>, <<>>, "", 0, "", out), out)

CallReadData(readRange, failAt) ==
    /\ pc = "idle"
    /\ LET out == ReadData(spreadsheetID, sheetName, book, readRange, failAt)
       IN  Returns(Call("ReadData", <<>>, <<>>, "", 0, readRange, out), out)

CallAppendData(data, range_, failAt) ==
    /\ pc = "idle"
    /\ LET out == AppendData(spreadsheetID, sheetName, book, data, range_, failAt)
       IN  Returns(Call("AppendData", data, <<>>, "", 0, range_, out), out)

CallInsertRowsAfterPosition(data, position, failAt) ==
    /\ pc = "idle"
    /\ LET out == InsertRowsAfterPosition(spreadsheetID, sheetName, book, data,
                                          position, failAt)
       IN  Returns(Call("InsertRowsAfterPosition", data, <<>>, "", position, "",
                        out), out)

CallInsertRowsAtBeginning(data, failAt) ==
    /\ pc = "idle"
    /\ LET out == InsertRowsAtBeginning(spreadsheetID, sheetName, book, data,
                                        failAt)
       IN  Returns(Call("InsertRowsAtBeginning", data, <<>>, "", 0, "", out), out)

CallDeleteRow(data, column, value, failAt) ==
    /\ pc = "idle"
    /\ LET out == DeleteRow(spreadsheetID, sheetName, book, data, column, value,
                            failAt)
       IN  Returns(Call("DeleteRow", data, column, value, 0, "", out), out)

\* the caller takes the result and goes on
Continue ==
    /\ pc = "returned"
    /\ pc' = "idle"
    /\ last' = NoCall
    /\ UNCHANGED <<spreadsheetID, sheetName, book, fnVars, sharedVars, raceVars>>

Next ==
    \/ \E id \in SpreadsheetIDs : SetSpreadsheetID(id)
    \/ \E name \in SheetNames : SetSheetName(name)
    \/ \E f \in 0..1 : CallGetSheetID(f)
    \/ \E g \in ReadRanges, f \in 0..1 : CallReadData(g, f)
    \/ \E d \in DataArgs, a \in Anchors, f \in 0..1 : CallAppendData(d, a, f)
    \/ \E d \in DataArgs, p \in Positions, f \in 0..3 :
          CallInsertRowsAfterPosition(d, p, f)
    \/ \E d \in DataArgs, f \in 0..3 : CallInsertRowsAtBeginning(d, f)
    \/ \E d \in DeleteTables(book), c \in DeleteColumns, v \in DeleteValues,
          f \in 0..2 : CallDeleteRow(d, c, v, f)
    \/ Continue

Spec == Init /\ [][Next]_vars

(***************************************************************************)
(* SpecShared: the client, configured once for a sheet, and another actor  *)
(* on the same remote spreadsheet.  The caller reads the sheet, keeps the  *)
(* rows (held) and passes them to DeleteRow, as the documentation of       *)
(* DeleteRow says (src/gosheets.go:205); between two calls of the caller   *)
(* the other actor inserts or deletes a row of the sheet, renames the      *)
(* sheet, or replaces it by a new sheet of the same title.  resolved is    *)
(* the sheet id the caller's previous structural operation worked on.      *)
(***************************************************************************)
OtherTitles == { "Sheet1", "Old" }

\* the id the service gives the sheet that replaces the first one
ReplacementId == 9

SharedBooks ==
    { << [title |-> "Sheet1", sheetId |-> 0, rows |-> g],
         [title |-> "Sheet2", sheetId |-> 7, rows |-> <<>>] >> : g \in Grids }

InitShared ==
    /\ spreadsheetID = BookID
    /\ sheetName = "Sheet1"
    /\ book \in SharedBooks
    /\ pc = "idle"
    /\ last = NoCall
    /\ fin = NoInput
    /\ fout = NoOutput
    /\ fpc = "call"
    /\ NoSharing
    /\ NoRace

\* the call returns; h is what the caller holds afterwards
SharedReturns(call, out, h) ==
    /\ WithinBound(out.book)
    /\ book' = out.book
    /\ last' = call
    /\ pc' = "returned"
    /\ held' = h
    /\ UNCHANGED <<spreadsheetID, sheetName, resolved, fnVars, raceVars>>

\* data, err := client.ReadData("A:B") (src/gosheets_test.go:359)
SharedReadData ==
    /\ pc = "idle"
    /\ LET out == ReadData(spreadsheetID, sheetName, book, "A:B", 0)
       IN  SharedReturns(Call("ReadData", <<>>, <<>>, "", 0, "A:B", out), out,
                         IF out.err = NoError
                         THEN [read |-> TRUE, rows |-> out.ret]
                         ELSE held)

\* client.DeleteRow(data, column, value) with the rows read earlier
SharedDeleteRow(column, value) ==
    /\ pc = "idle"
    /\ held.read
    /\ LET out == DeleteRow(spreadsheetID, sheetName, book, held.rows, column,
                            value, 0)
       IN  SharedReturns(Call("DeleteRow", held.rows, column, value, 0, "", out),
                         out, held)

SharedInsertRowsAfterPosition(data, position) ==
    /\ pc = "idle"
    /\ LET out == InsertRowsAfterPosition(spreadsheetID, sheetName, book, data,
                                          position, 0)
       IN  SharedReturns(Call("InsertRowsAfterPosition", data, <<>>, "",
                              position, "", out), out, held)

SharedInsertRowsAtBeginning(data) ==
    /\ pc = "idle"
    /\ LET out == InsertRowsAtBeginning(spreadsheetID, sheetName, book, data, 0)
       IN  SharedReturns(Call("InsertRowsAtBeginning", data, <<>>, "", 0, "",
                              out), out, held)

\* the call that returned sent a structural request: it resolved a sheet id
ResolvedIn(call) ==
    /\ call.op \in { "InsertRowsAfterPosition", "InsertRowsAtBeginning",
                     "DeleteRow" }
    /\ Len(call.reqs) >= 2

\* the caller goes on; what its operation resolved is now its previous one
SharedContinue ==
    /\ pc = "returned"
    /\ pc' = "idle"
    /\ last' = NoCall
    /\ resolved' = IF ResolvedIn(last)
                   THEN [name |-> sheetName, sheetId |-> last.reqs[2].sheetId]
                   ELSE resolved
    /\ UNCHANGED <<spreadsheetID, sheetName, book, held, fnVars, raceVars>>

\* the other actor puts a row in before row r of the first sheet
OtherInsertsRow(r, row) ==
    /\ pc = "idle"
    /\ r \in 1..(Len(book[1].rows) + 1)
    /\ LET b == WithRows(book, 1,
                         WriteRows(InsertBlankRows(book[1].rows, r - 1, r), r,
                                   <<row>>))
       IN  /\ WithinBound(b)
           /\ b # book
           /\ book' = b
    /\ UNCHANGED <<spreadsheetID, sheetName, pc, last, fnVars, sharedVars,
                   raceVars>>

\* the other actor deletes row r of the first sheet
OtherDeletesRow(r) ==
    /\ pc = "idle"
    /\ r \in 1..Len(book[1].rows)
    /\ book' = WithRows(book, 1, DeleteRows(book[1].rows, r - 1, r))
    /\ UNCHANGED <<spreadsheetID, sheetName, pc, last, fnVars, sharedVars,
                   raceVars>>

\* the other actor renames the first sheet
OtherRenamesSheet(title) ==
    /\ pc = "idle"
    /\ title \notin SheetTitles(book)
    /\ book' = [book EXCEPT ![1].title = title]
    /\ UNCHANGED <<spreadsheetID, sheetName, pc, last, fnVars, sharedVars,
                   raceVars>>

\* the other actor deletes the first sheet and creates a sheet of the same
\* title in its place: a new sheet has a new id and no values
OtherReplacesSheet ==
    /\ pc = "idle"
    /\ ReplacementId \notin SheetIds(book)
    /\ book' = [book EXCEPT ![1].sheetId = ReplacementId, ![1].rows = <<>>]
    /\ UNCHANGED <<spreadsheetID, sheetName, pc, last, fnVars, sharedVars,
                   raceVars>>

NextShared ==
    \/ SharedReadData
    \/ \E c \in DeleteColumns, v \in DeleteValues : SharedDeleteRow(c, v)
    \/ \E d \in DataArgs, p \in Positions : SharedInsertRowsAfterPosition(d, p)
    \/ \E d \in DataArgs : SharedInsertRowsAtBeginning(d)
    \/ SharedContinue
    \/ \E r \in 1..(MaxGridRows + 1), row \in GridRows : OtherInsertsRow(r, row)
    \/ \E r \in 1..MaxGridRows : OtherDeletesRow(r)
    \/ \E t \in OtherTitles : OtherRenamesSheet(t)
    \/ OtherReplacesSheet

SpecShared == InitShared /\ [][NextShared]_vars

(***************************************************************************)
(* SpecRace: one thread runs InsertRowsAfterPosition while another calls   *)
(* the setters.  The fields are plain struct fields read and written       *)
(* without a lock, so the operation is taken step by step, one step for    *)
(* each place where it reads them: getSheetID validates (73), fetches (78) *)
(* and scans the titles (83-89); the insert is sent (173); AppendData      *)
(* validates (124), composes the address and sends (133-134).  A setter is *)
(* a write in two moments (begins, ends); a read of a field while a write  *)
(* of it is under way is a data race: it yields the old value, the new     *)
(* one, or a torn one, and the process may also fault.                     *)
(***************************************************************************)
Torn == "<torn>"

RaceNames == { "", "Sheet1", "Sheet2" }

RaceBooks ==
    { << [title |-> "Sheet1", sheetId |-> 0, rows |-> g1],
         [title |-> "Sheet2", sheetId |-> 7, rows |-> g2] >> :
      g1 \in { <<RowA>>, <<RowA, RowB>> }, g2 \in { <<>>, <<RowB>> } }

RacePositions == 0..2

\* the values a read of a field can yield
ReadsOf(field, current) ==
    IF writing.field = field THEN { current, writing.value, Torn }
    ELSE { current }

\* what getSheetID keeps of the metadata it fetched
TitlesAndIds(b) ==
    [ i \in 1..Len(b) |-> [title |-> b[i].title, sheetId |-> b[i].sheetId] ]

\* the address of the append, composed from the sheet name as it was when
\* the sheet id was resolved
appendAddressAtResolution(name, position) ==
    flight.scanName \o "!" \o "A" \o ToString(position)

\* range_ = gs.sheetName + "!" + range_ (133), range_ being
\* "A"+fmt.Sprint(position) (178)
appendAddress(name, position) == name \o "!" \o "A" \o ToString(position)

InitRace ==
    /\ spreadsheetID = BookID
    /\ sheetName = "Sheet1"
    /\ book \in RaceBooks
    /\ pc = "idle"
    /\ last = NoCall
    /\ fin = NoInput
    /\ fout = NoOutput
    /\ fpc = "call"
    /\ NoSharing
    /\ NoRace

\* the step changes the operation in progress, and the remote spreadsheet
\* if it is one of the two requests that write
RaceFrame ==
    UNCHANGED <<spreadsheetID, sheetName, pc, last, fnVars, sharedVars, writing>>

Fails(err) == flight' = [flight EXCEPT !.step = "done", !.err = err]

\* InsertRowsAfterPosition(data, position) is called (149)
StartInsert(data, position) ==
    /\ flight.step = "none"
    /\ TotalRows(book, 1) + 2 * Len(data) <= MaxRaceRows
    /\ flight' = [NoFlight EXCEPT !.step = "validate", !.data = data,
                                  !.position = position, !.before = book]
    /\ UNCHANGED book
    /\ RaceFrame

\* getSheetID: validateClientFields (73-76)
StepValidate(id, name) ==
    /\ flight.step = "validate"
    /\ LET err == validateClientFields(id, name)
       IN  IF err # NoError
           THEN Fails(Wrap("unable to retrieve sheet ID: ", err))
           ELSE flight' = [flight EXCEPT !.step = "fetch"]
    /\ UNCHANGED book
    /\ RaceFrame

\* getSheetID: Spreadsheets.Get(gs.spreadsheetID) (78-81)
StepFetch(id) ==
    /\ flight.step = "fetch"
    /\ LET ok == AcceptsGet(id)
           req == Request("get", id, "", -1, 0, 0, NoRows, ok)
       IN  IF ~ok
           THEN flight' = [flight EXCEPT
                    !.step = "done", !.reqs = @ \o <<req>>,
                    !.err = Wrap("unable to retrieve sheet ID: ",
                                 Wrap("unable to retrieve spreadsheet: ",
                                      RemoteFailure))]
           ELSE flight' = [flight EXCEPT
                    !.step = "scan", !.reqs = @ \o <<req>>,
                    !.sheets = TitlesAndIds(book)]
    /\ UNCHANGED book
    /\ RaceFrame

\* getSheetID: the titles compared with gs.sheetName (83-89)
StepScan(name) ==
    /\ flight.step = "scan"
    /\ LET found == ScanSheets(flight.sheets, name, 1)
       IN  IF found = -1
           THEN Fails(Wrap("unable to retrieve sheet ID: ",
                           Errorf("notfound",
                                  "sheet with name " \o name \o " not found")))
           ELSE flight' = [flight EXCEPT !.step = "insert", !.sheetID = found,
                                         !.scanName = name]
    /\ UNCHANGED book
    /\ RaceFrame

\* BatchUpdate(gs.spreadsheetID, insertDimension) (155-176)
StepInsert(id) ==
    /\ flight.step = "insert"
    /\ LET numRows == Len(flight.data)
           start == flight.position
           ok == AcceptsInsert(book, id, flight.sheetID, start, start + numRows)
           req == Request("insertDimension", id, "", flight.sheetID, start,
                          start + numRows, NoRows, ok)
           i == SheetById(book, flight.sheetID)
       IN  IF ~ok
           THEN /\ flight' = [flight EXCEPT
                       !.step = "done", !.reqs = @ \o <<req>>,
                       !.err = Wrap("unable to insert rows at position: ",
                                    RemoteFailure)]
                /\ UNCHANGED book
           ELSE /\ flight' = [flight EXCEPT !.step = "appendValidate",
                                            !.reqs = @ \o <<req>>]
                /\ book' = WithRows(book, i,
                                    InsertBlankRows(book[i].rows, start,
                                                    start + numRows))
    /\ RaceFrame

\* AppendData: validateClientFields (124-127)
StepAppendValidate(id, name) ==
    /\ flight.step = "appendValidate"
    /\ LET err == validateClientFields(id, name)
       IN  IF err # NoError
           THEN Fails(Wrap("unable to append data to Google Sheets: ", err))
           ELSE flight' = [flight EXCEPT !.step = "appendSend"]
    /\ UNCHANGED book
    /\ RaceFrame

\* AppendData: the address composed and Values.Append sent (129-137)
StepAppendSend(id, name) ==
    /\ flight.step = "appendSend"
    /\ LET address == appendAddress(name, flight.position)
           ok == AcceptsAppend(book, id, address)
           req == Request("values.append", id, address, -1, 0, 0, flight.data,
                          ok)
       IN  IF ~ok
           THEN /\ flight' = [flight EXCEPT
                       !.step = "done", !.reqs = @ \o <<req>>,
                       !.appendName = name,
                       !.err = Wrap("unable to append data to Google Sheets: ",
                                    Wrap("unable to add data to Google Sheets: ",
                                         RemoteFailure))]
                /\ UNCHANGED book
           ELSE LET i == SheetByTitle(book, ResolveTitle(book, address))
                IN  /\ flight' = [flight EXCEPT !.step = "done",
                                                !.reqs = @ \o <<req>>,
                                                !.appendName = name]
                    /\ book' = WithRows(book, i,
                                        AppendRows(book[i].rows,
                                                   ResolveRow(book, address),
                                                   flight.data))
    /\ RaceFrame

\* the operation has returned and its thread goes on
RaceReturn ==
    /\ flight.step = "done"
    /\ flight' = NoFlight
    /\ UNCHANGED book
    /\ RaceFrame

\* the other thread calls SetSheetName or SetSpreadsheetID: the write of the
\* field begins (57, 65)
SetterBegins(field, value) ==
    /\ writing = NoWrite
    /\ flight.step # "faulted"
    /\ writing' = [field |-> field, value |-> value]
    /\ UNCHANGED <<clientVars, fnVars, sharedVars, flight>>

\* the write of the field is complete
SetterEnds ==
    /\ writing # NoWrite
    /\ flight.step # "faulted"
    /\ spreadsheetID' = IF writing.field = "spreadsheetID" THEN writing.value
                        ELSE spreadsheetID
    /\ sheetName' = IF writing.field = "sheetName" THEN writing.value
                    ELSE sheetName
    /\ writing' = NoWrite
    /\ UNCHANGED <<book, pc, last, fnVars, sharedVars, flight>>

\* a step of the operation read a field that was being written and the
\* process faulted on what it read
Faults ==
    /\ flight.step \in { "validate", "fetch", "scan", "insert",
                         "appendValidate", "appendSend" }
    /\ writing # NoWrite
    /\ flight' = [flight EXCEPT !.step = "faulted"]
    /\ UNCHANGED book
    /\ RaceFrame

NextRace ==
    \/ \E d \in DataArgs, p \in RacePositions : StartInsert(d, p)
    \/ \E id \in ReadsOf("spreadsheetID", spreadsheetID),
          name \in ReadsOf("sheetName", sheetName) : StepValidate(id, name)
    \/ \E id \in ReadsOf("spreadsheetID", spreadsheetID) : StepFetch(id)
    \/ \E name \in ReadsOf("sheetName", sheetName) : StepScan(name)
    \/ \E id \in ReadsOf("spreadsheetID", spreadsheetID) : StepInsert(id)
    \/ \E id \in ReadsOf("spreadsheetID", spreadsheetID),
          name \in ReadsOf("sheetName", sheetName) : StepAppendValidate(id, name)
    \/ \E id \in ReadsOf("spreadsheetID", spreadsheetID),
          name \in ReadsOf("sheetName", sheetName) : StepAppendSend(id, name)
    \/ RaceReturn
    \/ \E id \in SpreadsheetIDs : SetterBegins("spreadsheetID", id)
    \/ \E name \in RaceNames : SetterBegins("sheetName", name)
    \/ SetterEnds
    \/ Faults

SpecRace == InitRace /\ [][NextRace]_vars

(***************************************************************************)
(* Reference notions the properties are stated with.                       *)
(***************************************************************************)
\* the position of a letter in the alphabet, 1..26, whatever its case
LetterValueOf ==
    [ c \in Letters |->
        CHOOSE i \in 1..26 : UpperLetters[i] = c \/ LowerLetters[i] = c ]

RECURSIVE Pow26(_)
Pow26(k) == IF k = 0 THEN 1 ELSE 26 * Pow26(k - 1)

RECURSIVE WeightedSum(_, _)
WeightedSum(column, i) ==
    IF i > Len(column) THEN 0
    ELSE LetterValueOf[column[i]] * Pow26(Len(column) - i)
         + WeightedSum(column, i + 1)

\* the value of a letter sequence read as a bijective base-26 numeral
Bijective26(column) == WeightedSum(column, 1)

RECURSIVE CountUpTo(_)
CountUpTo(len) == IF len = 0 THEN 0 ELSE Pow26(len) + CountUpTo(len - 1)

\* the index of the last column code of MaxColumnLen letters
MaxColumnIndex == CountUpTo(MaxColumnLen) - 1

ColumnIndexImage == { columnIndex(c) : c \in UpperColumns }

ColumnIndexOnto == ColumnIndexImage = 0..MaxColumnIndex

ColumnIndexInjective ==
    Cardinality(ColumnIndexImage) = Cardinality(UpperColumns)

ColumnIndexExamples ==
    /\ columnIndex(<<"A">>) = 0
    /\ columnIndex(<<"B">>) = 1
    /\ columnIndex(<<"Z">>) = 25
    /\ columnIndex(<<"A", "A">>) = 26
    /\ columnIndex(<<"B", "X">>) = 75
    /\ columnIndex(<<"Z", "Z", "Z">>) = 18277

(***************************************************************************)
(* C2: for every non-empty letter sequence up to MaxColumnLen letters, in  *)
(* upper or lower case, columnIndex returns the bijective base-26 value    *)
(* minus one: it is non-negative, equals the result for the upper-case     *)
(* form, no two codes that differ ignoring case share an index, every      *)
(* index from 0 to that of the last code is hit, and A=0, B=1, Z=25,       *)
(* AA=26, BX=75, ZZZ=18277.                                                *)
(***************************************************************************)
C2_ColumnIndexBijective ==
    /\ fpc = "done" =>
          /\ fout.index = Bijective26(fin.column) - 1
          /\ fout.index \in 0..MaxColumnIndex
          /\ fout.index = columnIndex(ToUpper(fin.column))
          /\ \A c \in {ToUpper(fin.column), ToLower(fin.column)} :
                columnIndex(c) = fout.index
    /\ ColumnIndexInjective
    /\ ColumnIndexOnto
    /\ ColumnIndexExamples

\* a lower-case two-letter code was converted
C2_Witness ==
    /\ fpc = "done"
    /\ fin.column = <<"b", "x">>
    /\ fout.index = 75

\* the rows of data that have a cell at the column whose rendering is value
MatchingRows(data, column, value) ==
    { i \in 1..Len(data) :
        /\ Len(data[i]) >= Bijective26(column)
        /\ Sprint(data[i][Bijective26(column)]) = value }

Minimum(S) == CHOOSE m \in S : \A k \in S : m <= k

(***************************************************************************)
(* C3: for every table (rows of different lengths, no rows included),      *)
(* every valid column code and every value, findRowNumber returns the      *)
(* 1-based position of the earliest row that has a cell at that column     *)
(* whose rendering equals the value, and -1 when there is none; a row too  *)
(* short for the column is skipped without an out-of-range access, and the *)
(* result is -1 or within 1..len(data).                                    *)
(***************************************************************************)
C3_FindRowNumberFirstMatch ==
    fpc = "done" =>
        LET m == MatchingRows(fin.data, fin.column, fin.value)
        IN  /\ ~fout.panic
            /\ fout.index = (IF m = {} THEN -1 ELSE Minimum(m))
            /\ fout.index = -1 \/ fout.index \in 1..Len(fin.data)

\* a short row and a non-matching row were passed over, and the earlier of
\* two matching rows was returned
C3_Witness ==
    /\ fpc = "done"
    /\ fin.column = <<"b">>
    /\ fin.value = "1"
    /\ fin.data = << <<StrCell("x")>>,
                     <<StrCell("x"), IntCell(1)>>,
                     <<IntCell(1), IntCell(1)>> >>
    /\ fout = Found(2)

(***************************************************************************)
(* Notions about the call that returned last.                              *)
(***************************************************************************)
DataOps ==
    { "ReadData", "AppendData", "InsertRowsAfterPosition",
      "InsertRowsAtBeginning", "DeleteRow" }

Returned(op) == pc = "returned" /\ last.op = op

Unset == spreadsheetID = "" \/ sheetName = ""

\* the configured sheet is a sheet of the spreadsheet
SheetExists == sheetName \in SheetTitles(last.before)

\* the service carried out every request of the call
AllAccepted == \A i \in 1..Len(last.reqs) : last.reqs[i].ok

RequestsOf(kind) == SelectSeq(last.reqs, LAMBDA r : r.kind = kind)

BeforeRows == RowsOf(last.before, sheetName)

AfterRows == RowsOf(book, sheetName)

\* the call changed no sheet but, at most, the rows of the configured one
OnlyConfiguredSheet ==
    /\ Len(book) = Len(last.before)
    /\ \A i \in 1..Len(book) :
          /\ book[i].title = last.before[i].title
          /\ book[i].sheetId = last.before[i].sheetId
          /\ book[i].title # sheetName => book[i].rows = last.before[i].rows

ConfiguredSheetId == last.before[SheetByTitle(last.before, sheetName)].sheetId

\* rows without the row at 1-based position k
RemoveAt(rows, k) ==
    [ i \in 1..(Len(rows) - 1) |-> IF i < k THEN rows[i] ELSE rows[i + 1] ]

LastMatches == MatchingRows(last.data, last.column, last.value)

(***************************************************************************)
(* C1 as written: every data operation called with the spreadsheet id or   *)
(* the sheet name unset fails with a configuration error and issues no     *)
(* remote call.                                                            *)
(***************************************************************************)
C1_Original ==
    pc = "returned" /\ last.op \in DataOps /\ Unset =>
        last.err.kind = "config" /\ last.reqs = <<>>

(***************************************************************************)
(* C1 amended: every data operation called with the spreadsheet id or the  *)
(* sheet name unset (a fresh client included) fails, issues no remote call *)
(* and leaves the spreadsheet alone; its error is the configuration error, *)
(* except for DeleteRow when no row of data matches, which returns the     *)
(* not-found error of the row lookup that precedes the validation.         *)
(***************************************************************************)
C1_UnsetFieldsFailLocally ==
    pc = "returned" /\ last.op \in DataOps /\ Unset =>
        /\ last.err # NoError
        /\ last.reqs = <<>>
        /\ book = last.before
        /\ last.err.kind =
              (IF last.op = "DeleteRow" /\ LastMatches = {}
               THEN "notfound" ELSE "config")

\* AppendData returned the configuration error for an unset sheet name, the
\* spreadsheet id being set
C1_Witness ==
    /\ Returned("AppendData")
    /\ spreadsheetID = BookID
    /\ sheetName = ""
    /\ last.err = Errorf("config", "sheet name not set")
    /\ last.reqs = <<>>

(***************************************************************************)
(* C4: with valid configuration, a service that carries out the requests   *)
(* and data that mirrors the rows of the sheet, DeleteRow with a matching  *)
(* row issues exactly one structural delete, of the one row [k-1, k) where *)
(* k is the position of the first match, on the configured sheet; the      *)
(* sheet then holds the same rows in the same order without row k, and the *)
(* call returns no error.                                                  *)
(***************************************************************************)
C4_DeleteRowRemovesFirstMatch ==
    /\ Returned("DeleteRow")
    /\ ~Unset
    /\ SheetExists
    /\ AllAccepted
    /\ last.data = BeforeRows
    /\ LastMatches # {}
    => LET k == Minimum(LastMatches)
           deletes == RequestsOf("deleteDimension")
       IN  /\ last.err = NoError
           /\ Len(deletes) = 1
           /\ deletes[1].spreadsheetID = spreadsheetID
           /\ deletes[1].sheetId = ConfiguredSheetId
           /\ deletes[1].startIndex = k - 1
           /\ deletes[1].endIndex = k
           /\ RequestsOf("insertDimension") = <<>>
           /\ RequestsOf("values.append") = <<>>
           /\ AfterRows = Trim(RemoveAt(BeforeRows, k))
           /\ OnlyConfiguredSheet

\* the second row of the second sheet, the first match of three rows, left
C4_Witness ==
    /\ Returned("DeleteRow")
    /\ sheetName = "Sheet2"
    /\ last.err = NoError
    /\ last.data = <<RowB, RowA, RowA>>
    /\ last.column = <<"A">>
    /\ last.value = "a"
    /\ last.before[2].rows = <<RowB, RowA, RowA>>
    /\ book[2].rows = <<RowB, RowA>>

(***************************************************************************)
(* C5: DeleteRow called with no rows, or with rows none of which has the   *)
(* value at the column, fails with a not-found error, issues no structural *)
(* delete and leaves the spreadsheet unchanged.                            *)
(***************************************************************************)
C5_DeleteRowNotFound ==
    Returned("DeleteRow") /\ LastMatches = {} =>
        /\ last.err.kind = "notfound"
        /\ RequestsOf("deleteDimension") = <<>>
        /\ last.reqs = <<>>
        /\ book = last.before

\* rows were passed, none matched, with the configuration valid
C5_Witness ==
    /\ Returned("DeleteRow")
    /\ ~Unset
    /\ SheetExists
    /\ last.data = <<RowA, RowB>>
    /\ last.column = <<"B">>
    /\ last.value = "zz"
    /\ last.err.kind = "notfound"

PlacedAfter(p, data) ==
    LET n == Len(data)
    IN  /\ \A r \in 1..p : RowAt(AfterRows, r) = RowAt(BeforeRows, r)
        /\ \A j \in 1..n : RowAt(AfterRows, p + j) = data[j]
        /\ \A r \in (p + 1)..Len(BeforeRows) :
              RowAt(AfterRows, r + n) = RowAt(BeforeRows, r)
        /\ Len(AfterRows) <= Max(Len(BeforeRows), p) + n

(***************************************************************************)
(* C7 as written: with valid configuration and a service that carries out  *)
(* the requests, InsertRowsAfterPosition(data, p) with p >= 1 succeeds;    *)
(* rows 1..p are unchanged, rows p+1..p+len(data) hold data in order, the  *)
(* rows that were at p+1 onward follow, and the append is anchored at      *)
(* column A of row p+1.                                                    *)
(***************************************************************************)
C7_Original ==
    /\ Returned("InsertRowsAfterPosition")
    /\ ~Unset
    /\ SheetExists
    /\ AllAccepted
    /\ last.position >= 1
    => LET appends == RequestsOf("values.append")
       IN  /\ last.err = NoError
           /\ PlacedAfter(last.position, last.data)
           /\ Len(appends) = 1
           /\ appends[1].address
                 = sheetName \o "!" \o CellName(last.position + 1)

(***************************************************************************)
(* C7 amended: with valid configuration and a service that carries out the *)
(* requests, InsertRowsAfterPosition(data, p) with p >= 1 on a sheet whose *)
(* row p holds a value succeeds; it fetches the metadata, inserts the rows *)
(* [p, p+len(data)) in the configured sheet and appends data anchored at   *)
(* column A of row p (not p+1: the table the anchor locates ends at row    *)
(* p); rows 1..p are unchanged, rows p+1..p+len(data) hold data in order,  *)
(* and the rows that were at p+1 onward follow.                            *)
(***************************************************************************)
C7_InsertRowsAfterPositionPlacesData ==
    /\ Returned("InsertRowsAfterPosition")
    /\ ~Unset
    /\ SheetExists
    /\ AllAccepted
    /\ last.position >= 1
    /\ RowAt(BeforeRows, last.position) # Blank
    => LET p == last.position
           n == Len(last.data)
       IN  /\ last.err = NoError
           /\ Len(last.reqs) = 3
           /\ last.reqs[1].kind = "get"
           /\ last.reqs[2].kind = "insertDimension"
           /\ last.reqs[2].sheetId = ConfiguredSheetId
           /\ last.reqs[2].startIndex = p
           /\ last.reqs[2].endIndex = p + n
           /\ last.reqs[3].kind = "values.append"
           /\ last.reqs[3].address = sheetName \o "!" \o CellName(p)
           /\ last.reqs[3].values = last.data
           /\ PlacedAfter(p, last.data)
           /\ Len(AfterRows) = Len(BeforeRows) + n
           /\ OnlyConfiguredSheet

\* one row went between the two rows of the first sheet
C7_Witness ==
    /\ Returned("InsertRowsAfterPosition")
    /\ sheetName = "Sheet1"
    /\ last.err = NoError
    /\ last.position = 1
    /\ last.data = <<RowA>>
    /\ last.before[1].rows = <<RowA, RowB>>
    /\ book[1].rows = <<RowA, RowA, RowB>>

(***************************************************************************)
(* C8: InsertRowsAfterPosition(data, 0) fails for every data, attempts no  *)
(* append and leaves the spreadsheet unchanged; when the call reaches the  *)
(* structural insert (configuration valid, sheet resolved), the service    *)
(* refuses start index 0 and the error returned is a remote error.         *)
(***************************************************************************)
C8_PositionZeroRejected ==
    Returned("InsertRowsAfterPosition") /\ last.position = 0 =>
        LET inserts == RequestsOf("insertDimension")
        IN  /\ last.err # NoError
            /\ RequestsOf("values.append") = <<>>
            /\ book = last.before
            /\ (~Unset /\ SheetExists /\ last.reqs # <<>> /\ last.reqs[1].ok) =>
                  /\ last.err.kind = "remote"
                  /\ Len(last.reqs) = 2
                  /\ Len(inserts) = 1
                  /\ inserts[1].startIndex = 0
                  /\ inserts[1].endIndex = Len(last.data)
                  /\ ~inserts[1].ok

\* the insert at position 0 was sent and refused
C8_Witness ==
    /\ Returned("InsertRowsAfterPosition")
    /\ last.position = 0
    /\ last.data = <<RowB, RowA>>
    /\ sheetName = "Sheet2"
    /\ Len(last.reqs) = 2
    /\ last.reqs[1].ok
    /\ last.err.kind = "remote"

(***************************************************************************)
(* C9: InsertRowsAtBeginning(data) is InsertRowsAfterPosition(data, 1):    *)
(* from the same session fields and spreadsheet, with the same answers of  *)
(* the service, both issue the same requests, leave the same spreadsheet,  *)
(* and both succeed or both fail, for the same kind of reason.             *)
(***************************************************************************)
C9_AtBeginningIsAfterPositionOne ==
    Returned("InsertRowsAtBeginning") =>
        \E f \in 0..3 :
            LET r == InsertRowsAfterPosition(spreadsheetID, sheetName,
                                             last.before, last.data, 1, f)
            IN  /\ r.reqs = last.reqs
                /\ r.book = book
                /\ (r.err = NoError) <=> (last.err = NoError)
                /\ r.err.kind = last.err.kind

\* rows were inserted at the beginning, after the header row
C9_Witness ==
    /\ Returned("InsertRowsAtBeginning")
    /\ sheetName = "Sheet1"
    /\ last.err = NoError
    /\ last.data = <<RowA>>
    /\ last.before[1].rows = <<RowB, RowA>>
    /\ book[1].rows = <<RowB, RowA, RowA>>

(***************************************************************************)
(* C10: AppendData with no rows, valid configuration and a non-empty       *)
(* anchor sends the one append request with no values and changes nothing: *)
(* the spreadsheet after the call is the spreadsheet before it, however    *)
(* often the call is made, and the call succeeds whenever the service      *)
(* carries the request out.                                                *)
(***************************************************************************)
C10_AppendNothingIsNoOp ==
    /\ Returned("AppendData")
    /\ ~Unset
    /\ last.range # ""
    /\ last.data = <<>>
    => /\ book = last.before
       /\ Len(last.reqs) = 1
       /\ last.reqs[1].kind = "values.append"
       /\ last.reqs[1].address = sheetName \o "!" \o last.range
       /\ last.reqs[1].values = <<>>
       /\ (last.err = NoError) <=> last.reqs[1].ok
       /\ (SheetExists /\ last.err # NoError) => last.err.kind = "remote"

\* no rows were appended to a sheet that holds rows, with success
C10_Witness ==
    /\ Returned("AppendData")
    /\ sheetName = "Sheet1"
    /\ last.range = "A1"
    /\ last.data = <<>>
    /\ last.err = NoError
    /\ last.before[1].rows = <<RowA, RowB>>
    /\ book = last.before

\* the rows of the sheet that a range covers: all of them for "A:B", the
\* first two for "A1:B2", up to the last of them that holds a value
CoveredRows(rows, g) ==
    IF g = "A:B" THEN Len(rows)
    ELSE IF RowAt(rows, 2) # Blank THEN 2
    ELSE IF RowAt(rows, 1) # Blank THEN 1
    ELSE 0

(***************************************************************************)
(* C11: with valid configuration, ReadData(range) issues exactly one       *)
(* range read, for the address "<sheetName>!<range>" on the configured     *)
(* spreadsheet, and changes nothing; when the service carries it out the   *)
(* call returns the rows of the range as the service holds them, in order, *)
(* each with its own length; when the service fails it, as it does for a   *)
(* sheet name that does not exist, the call returns a remote error and no  *)
(* data.                                                                   *)
(***************************************************************************)
C11_ReadDataReturnsRemoteRows ==
    (Returned("ReadData") /\ ~Unset) =>
        /\ Len(last.reqs) = 1
        /\ last.reqs[1].kind = "values.get"
        /\ last.reqs[1].spreadsheetID = spreadsheetID
        /\ last.reqs[1].address = sheetName \o "!" \o last.range
        /\ book = last.before
        /\ ~SheetExists => ~last.reqs[1].ok
        /\ last.reqs[1].ok =>
              /\ last.err = NoError
              /\ Len(last.ret) = CoveredRows(BeforeRows, last.range)
              /\ \A r \in 1..Len(last.ret) :
                    /\ Len(last.ret[r]) = Len(BeforeRows[r])
                    /\ last.ret[r] = BeforeRows[r]
        /\ ~last.reqs[1].ok =>
              /\ last.err.kind = "remote"
              /\ last.ret = NoRows

C11_Witness ==
    /\ Returned("ReadData")
    /\ last.err = NoError
    /\ Len(last.ret) = 2
    /\ Len(last.ret[1]) # Len(last.ret[2])

\* the positions of the sheets of the spreadsheet that carry a title
TitledAt(b, title) == { i \in 1..Len(b) : b[i].title = title }

(***************************************************************************)
(* C13: with valid configuration, getSheetID issues one metadata fetch,    *)
(* for the configured spreadsheet, and changes nothing; it returns the id  *)
(* of the first sheet whose title is exactly the configured name (a name   *)
(* that differs in case only matches no sheet); it fails with a not-found  *)
(* error when no sheet has that title and with a remote error when the     *)
(* fetch fails, and the id returned with either failure is -1.             *)
(***************************************************************************)
C13_GetSheetIDResolvesExactTitle ==
    (Returned("getSheetID") /\ ~Unset) =>
        /\ Len(last.reqs) = 1
        /\ last.reqs[1].kind = "get"
        /\ last.reqs[1].spreadsheetID = spreadsheetID
        /\ book = last.before
        /\ (last.reqs[1].ok /\ TitledAt(last.before, sheetName) # {}) =>
              /\ last.err = NoError
              /\ last.ret = last.before[Minimum(TitledAt(last.before, sheetName))].sheetId
        /\ (last.reqs[1].ok /\ TitledAt(last.before, sheetName) = {}) =>
              /\ last.err.kind = "notfound"
              /\ last.ret = -1
        /\ ~last.reqs[1].ok =>
              /\ last.err.kind = "remote"
              /\ last.ret = -1

C13_Witness ==
    /\ Returned("getSheetID")
    /\ sheetName = "sheet1"
    /\ "Sheet1" \in SheetTitles(last.before)
    /\ last.reqs # <<>>
    /\ last.reqs[1].ok
    /\ last.err.kind = "notfound"
    /\ last.ret = -1

\* the kinds of the requests of the last call, in the order issued
KindsOf(reqs) == [ i \in 1..Len(reqs) |-> reqs[i].kind ]

\* the request sequences an operation can issue when every step succeeds
FullRequests(op) ==
    CASE op = "getSheetID" -> << "get" >>
      [] op = "ReadData" -> << "values.get" >>
      [] op = "AppendData" -> << "values.append" >>
      [] op = "InsertRowsAfterPosition" ->
            << "get", "insertDimension", "values.append" >>
      [] op = "InsertRowsAtBeginning" ->
            << "get", "insertDimension", "values.append" >>
      [] op = "DeleteRow" -> << "get", "deleteDimension" >>

IsPrefix(s, t) == Len(s) <= Len(t) /\ s = SubSeq(t, 1, Len(s))

\* the value an operation returns beside its error, when it fails
NoResult(op) == IF op = "getSheetID" THEN -1 ELSE NoRows

(***************************************************************************)
(* C14: in every operation the first step that fails ends the call with an *)
(* error.  The requests issued are a prefix of the operation's requests in *)
(* order, each at most once (no retry); only the last one issued can have  *)
(* failed, and then the call returns an error; a call that returns an      *)
(* error returns no result with it; a call that fails in validation or in  *)
(* the row lookup issues no request, one that fails to resolve the sheet   *)
(* issues the metadata fetch only; the structural insert or delete follows *)
(* a successful resolution only, and the append of                         *)
(* InsertRowsAfterPosition a successful insert only; a call that succeeds  *)
(* issued all its requests.                                                *)
(***************************************************************************)
C14_FirstFailureEndsTheCall ==
    pc = "returned" =>
        /\ IsPrefix(KindsOf(last.reqs), FullRequests(last.op))
        /\ \A i \in 1..(Len(last.reqs) - 1) : last.reqs[i].ok
        /\ (last.reqs # <<>> /\ ~last.reqs[Len(last.reqs)].ok) =>
              last.err.kind = "remote"
        /\ last.err # NoError => last.ret = NoResult(last.op)
        /\ last.err.kind = "config" => last.reqs = <<>>
        /\ (last.op = "DeleteRow" /\ LastMatches = {}) =>
              (last.err # NoError /\ last.reqs = <<>>)
        /\ (last.err.kind = "notfound" /\ last.reqs # <<>>) =>
              KindsOf(last.reqs) = << "get" >>
        /\ (Len(last.reqs) >= 2) =>
              (last.reqs[1].ok /\ last.reqs[2].sheetId \in SheetIds(last.before)
               /\ SheetExists)
        /\ last.err = NoError =>
              (AllAccepted /\ KindsOf(last.reqs) = FullRequests(last.op))
        /\ last.err # NoError =>
              (\/ last.reqs = <<>>
               \/ ~last.reqs[Len(last.reqs)].ok
               \/ last.err.kind = "notfound")

C14_Witness ==
    /\ Returned("InsertRowsAfterPosition")
    /\ last.position >= 1
    /\ KindsOf(last.reqs) = << "get", "insertDimension" >>
    /\ last.reqs[1].ok
    /\ ~last.reqs[2].ok
    /\ last.err.kind = "remote"
    /\ book = last.before

\* rows with n blank rows put in before the row that follows row p
WithBlanksAfter(rows, p, n) ==
    Trim([ r \in 1..(Len(rows) + n) |->
             IF r <= p THEN RowAt(rows, r)
             ELSE IF r <= p + n THEN Blank
             ELSE RowAt(rows, r - n) ])

(***************************************************************************)
(* C15: InsertRowsAfterPosition is not atomic and not rolled back: when    *)
(* the structural insert of len(data) blank rows was carried out and the   *)
(* append that follows fails, the call returns an error, issues no delete  *)
(* (its requests are the fetch, the insert and the failed append), and the *)
(* sheet keeps the len(data) blank rows after row p with none of the data  *)
(* written: the rows that were below row p are len(data) rows lower.       *)
(***************************************************************************)
C15_FailedAppendLeavesBlankRows ==
    (/\ Returned("InsertRowsAfterPosition")
     /\ Len(last.reqs) >= 2
     /\ last.reqs[2].ok
     /\ last.err # NoError) =>
        /\ KindsOf(last.reqs) = << "get", "insertDimension", "values.append" >>
        /\ ~last.reqs[3].ok
        /\ RequestsOf("deleteDimension") = <<>>
        /\ last.reqs[2].endIndex - last.reqs[2].startIndex = Len(last.data)
        /\ AfterRows = WithBlanksAfter(BeforeRows, last.position, Len(last.data))
        /\ OnlyConfiguredSheet
        /\ Len(BeforeRows) > last.position =>
              /\ Len(AfterRows) = Len(BeforeRows) + Len(last.data)
              /\ \A r \in (last.position + 1)..(last.position + Len(last.data)) :
                    AfterRows[r] = Blank

C15_Witness ==
    /\ Returned("InsertRowsAfterPosition")
    /\ Len(last.reqs) = 3
    /\ last.reqs[2].ok
    /\ ~last.reqs[3].ok
    /\ last.err # NoError
    /\ last.data # <<>>
    /\ Len(BeforeRows) > last.position
    /\ AfterRows # BeforeRows

(***************************************************************************)
(* C20: DeleteRow looks the row up in the caller's data before it          *)
(* validates the session fields.  Called with the spreadsheet id or the    *)
(* sheet name unset, it returns the not-found error of the lookup when no  *)
(* row matches, and the configuration error (wrapped as a failure to       *)
(* retrieve the sheet id) exactly when a row matches; either way it issues *)
(* no remote call and the spreadsheet is unchanged.                        *)
(***************************************************************************)
C20_DeleteRowLooksUpBeforeValidating ==
    (Returned("DeleteRow") /\ Unset) =>
        /\ LastMatches = {} =>
              /\ last.err.kind = "notfound"
              /\ last.err.msg = "unable to find the value " \o last.value
        /\ LastMatches # {} =>
              /\ last.err.kind = "config"
              /\ last.err.msg \in
                    { "unable to retrieve sheet ID: spreadsheet ID not set",
                      "unable to retrieve sheet ID: sheet name not set" }
        /\ last.reqs = <<>>
        /\ book = last.before

C20_Witness ==
    /\ Returned("DeleteRow")
    /\ spreadsheetID # ""
    /\ sheetName = ""
    /\ last.data # <<>>
    /\ LastMatches = {}
    /\ last.err.kind = "notfound"
    /\ last.reqs = <<>>

\* a step of a setter: between two calls, nothing sent to the service
SetterFrame == pc = "idle" /\ UNCHANGED <<book, pc, last>>

(***************************************************************************)
(* C19: the session fields change through their own setter only.           *)
(* SetSpreadsheetID(id) sets the spreadsheet id to id and leaves the sheet *)
(* name, the remote spreadsheet and the record of requests alone;          *)
(* SetSheetName(name) does the same for the sheet name; both are possible  *)
(* for every string, the empty one included, whatever the fields hold; a   *)
(* step that changes a field is a step of its setter, and every call of an *)
(* operation (getSheetID, ReadData, AppendData, InsertRowsAfterPosition,   *)
(* InsertRowsAtBeginning, DeleteRow), failed or not, leaves both fields    *)
(* unchanged.                                                              *)
(***************************************************************************)
C19_FieldsChangeThroughSettersOnly ==
    /\ [](pc = "idle" =>
            /\ \A id \in SpreadsheetIDs : ENABLED SetSpreadsheetID(id)
            /\ \A name \in SheetNames : ENABLED SetSheetName(name))
    /\ [][/\ \A id \in SpreadsheetIDs :
               SetSpreadsheetID(id) =>
                   (spreadsheetID' = id /\ sheetName' = sheetName /\ SetterFrame)
          /\ \A name \in SheetNames :
               SetSheetName(name) =>
                   (sheetName' = name /\ spreadsheetID' = spreadsheetID
                    /\ SetterFrame)
          /\ spreadsheetID' # spreadsheetID => SetSpreadsheetID(spreadsheetID')
          /\ sheetName' # sheetName => SetSheetName(sheetName')
          /\ pc' = "returned" =>
               (spreadsheetID' = spreadsheetID /\ sheetName' = sheetName)
         ]_vars

C19_Witness ==
    /\ pc = "returned"
    /\ last.op \in DataOps
    /\ last.err # NoError
    /\ last.reqs # <<>>
    /\ spreadsheetID = BookID
    /\ sheetName = "sheet1"

\* the rendering of a row: every cell followed by a tab, then a line break
RECURSIVE RowText(_)
RowText(row) ==
    IF row = <<>> THEN "\n"
    ELSE Sprint(Head(row)) \o "\t" \o RowText(Tail(row))

\* the renderings of the rows, one after the other
RECURSIVE TableText(_)
TableText(data) ==
    IF data = <<>> THEN ""
    ELSE RowText(Head(data)) \o TableText(Tail(data))

\* the characters of the rendering: those of the cells, a tab for each cell
\* and a line break for each row
RECURSIVE CellChars(_)
CellChars(row) ==
    IF row = <<>> THEN 0
    ELSE Len(Sprint(Head(row))) + CellChars(Tail(row))

RECURSIVE TextLength(_)
TextLength(data) ==
    IF data = <<>> THEN 0
    ELSE CellChars(Head(data)) + Len(Head(data)) + 1 + TextLength(Tail(data))

(***************************************************************************)
(* C12: DataToString returns a string for every table: the empty string    *)
(* for a table with no rows (and for no other), otherwise the renderings   *)
(* of the rows in order, each row being every cell followed by one tab and *)
(* then one line break; a row of n cells adds its cells' characters, n     *)
(* tabs and one line break, so rows of different lengths are not padded.   *)
(***************************************************************************)
C12_DataToStringRendersRows ==
    fpc = "done" =>
        /\ fout.text = TableText(fin.data)
        /\ Len(fout.text) = TextLength(fin.data)
        /\ fin.data = <<>> <=> fout.text = ""
        /\ Len(fin.data) = 1 => fout.text = RowText(fin.data[1])
        /\ Len(fin.data) = 2 =>
              fout.text = RowText(fin.data[1]) \o RowText(fin.data[2])

C12_Witness ==
    /\ fpc = "done"
    /\ Len(fin.data) = 2
    /\ Len(fin.data[1]) = 2
    /\ Len(fin.data[2]) = 1
    /\ fin.data[1][2] = Nil
    /\ fout.text = "a\t<nil>\t\n12\t\n"

\* a sheet without its row k; below its last value a sheet is blank, and
\* stays so without one of its blank rows
WithoutRow(rows, k) ==
    IF k <= Len(rows) THEN Trim(RemoveAt(rows, k)) ELSE rows

(***************************************************************************)
(* C16: reading and then deleting is not one transaction.  DeleteRow never *)
(* reads the sheet: the row it deletes is the first row of the caller's    *)
(* data that has the value at the column, by its position k in that data,  *)
(* and the sheet loses whatever row is at position k when the call is      *)
(* made.  So when another actor inserted or deleted a row of the sheet     *)
(* after the caller read it, DeleteRow can succeed and remove a row whose  *)
(* cell at the column is not the value (the witness).                      *)
(***************************************************************************)
C16_DeleteRowTrustsCallerRows ==
    Returned("DeleteRow") =>
        /\ last.data = held.rows
        /\ RequestsOf("values.get") = <<>>
        /\ LastMatches = {} => (last.err.kind = "notfound" /\ last.reqs = <<>>)
        /\ (LastMatches # {} /\ SheetExists) =>
              /\ last.err = NoError
              /\ KindsOf(last.reqs) = << "get", "deleteDimension" >>
              /\ last.reqs[2].startIndex = Minimum(LastMatches) - 1
              /\ last.reqs[2].endIndex = Minimum(LastMatches)
              /\ AfterRows = WithoutRow(BeforeRows, Minimum(LastMatches))

\* resolved = NoResolution: no earlier operation of the caller sent a
\* structural request, so the sheet differs from the rows held by what the
\* other actor did
C16_Witness ==
    /\ Returned("DeleteRow")
    /\ last.err = NoError
    /\ resolved = NoResolution
    /\ last.data # BeforeRows
    /\ Minimum(LastMatches) <= Len(BeforeRows)
    /\ MatchingRows(BeforeRows, last.column, last.value) # {}
    /\ Minimum(LastMatches) \notin
          MatchingRows(BeforeRows, last.column, last.value)
    /\ AfterRows = Trim(RemoveAt(BeforeRows, Minimum(LastMatches)))
    /\ Len(AfterRows) < Len(BeforeRows)

\* the operations that resolve the sheet id
StructuralOps ==
    { "InsertRowsAfterPosition", "InsertRowsAtBeginning", "DeleteRow" }

\* the call that returned got as far as resolving the sheet
ReachedResolution ==
    /\ pc = "returned"
    /\ last.op \in StructuralOps
    /\ ~Unset
    /\ last.op = "DeleteRow" => LastMatches # {}

(***************************************************************************)
(* C18: the sheet id is never kept from one operation to the next.  Every  *)
(* call of InsertRowsAfterPosition, InsertRowsAtBeginning or DeleteRow     *)
(* that gets as far as resolving the sheet issues exactly one metadata     *)
(* fetch, its first request, and works on the id that the sheet titled     *)
(* with the configured name has at that moment, whatever id an earlier     *)
(* operation resolved; after the sheet was renamed the call fails with the *)
(* not-found error and sends nothing else; after the sheet was replaced by *)
(* a new one of the same title the call works on the new id (the witness). *)
(***************************************************************************)
C18_SheetIdResolvedAfresh ==
    ReachedResolution =>
        /\ Len(RequestsOf("get")) = 1
        /\ last.reqs[1].kind = "get"
        /\ last.reqs[1].spreadsheetID = spreadsheetID
        /\ (SheetExists /\ last.reqs[1].ok) =>
              /\ Len(last.reqs) >= 2
              /\ last.reqs[2].kind \in { "insertDimension", "deleteDimension" }
              /\ last.reqs[2].sheetId = ConfiguredSheetId
        /\ (~SheetExists /\ last.reqs[1].ok) =>
              /\ last.err.kind = "notfound"
              /\ Len(last.reqs) = 1
              /\ book = last.before

C18_Witness ==
    /\ ReachedResolution
    /\ resolved.name = sheetName
    /\ resolved.sheetId = 0
    /\ last.err = NoError
    /\ last.reqs[2].sheetId = ReplacementId
    /\ ConfiguredSheetId = ReplacementId

\* the id of the sheet that carried a title when the operation began
IdOfTitle(b, title) == b[SheetByTitle(b, title)].sheetId

(***************************************************************************)
(* C17: every step of an operation reads the session fields as they are    *)
(* when the step runs, with no lock, so a setter called from another       *)
(* thread while InsertRowsAfterPosition is in progress changes the sheet   *)
(* the remaining steps work on.  The structural insert goes to the sheet   *)
(* whose title was the sheet name read when the id was resolved, the       *)
(* append to the address composed from the sheet name read when the append *)
(* is sent; when the two names differ and both requests are carried out,   *)
(* the first sheet has the blank rows and none of the data, and the second *)
(* has the data (the witness).                                             *)
(***************************************************************************)
C17_StepsReadTheFieldsAnew ==
    /\ \A i \in 1..Len(flight.reqs) :
          /\ flight.reqs[i].kind = "insertDimension" =>
                flight.reqs[i].sheetId = IdOfTitle(flight.before, flight.scanName)
          /\ flight.reqs[i].kind = "values.append" =>
                flight.reqs[i].address =
                    flight.appendName \o "!" \o CellName(flight.position)
    /\ (flight.step = "done" /\ flight.err = NoError
        /\ flight.scanName # flight.appendName) =>
          /\ RowsOf(book, flight.scanName) =
                WithBlanksAfter(RowsOf(flight.before, flight.scanName),
                                flight.position, Len(flight.data))
          /\ RowsOf(book, flight.appendName) =
                AppendRows(RowsOf(flight.before, flight.appendName),
                           flight.position, flight.data)
    /\ (flight.step = "done" /\ flight.err = NoError
        /\ flight.scanName = flight.appendName) =>
          RowsOf(book, flight.scanName) =
              AppendRows(WithBlanksAfter(RowsOf(flight.before, flight.scanName),
                                         flight.position, Len(flight.data)),
                         flight.position, flight.data)

C17_Witness ==
    /\ flight.step = "done"
    /\ flight.err = NoError
    /\ writing = NoWrite
    /\ flight.data # <<>>
    /\ flight.scanName = "Sheet1"
    /\ flight.appendName = "Sheet2"
    /\ sheetName = "Sheet2"
    /\ flight.reqs[2].sheetId = 0
    /\ flight.reqs[3].address = "Sheet2!A1"
    /\ Len(RowsOf(book, "Sheet1")) =
          Len(RowsOf(flight.before, "Sheet1")) + Len(flight.data)
    /\ RowsOf(book, "Sheet1")[2] = Blank
    /\ RowsOf(book, "Sheet2") =
          RowsOf(flight.before, "Sheet2") \o flight.data

=============================================================================
